---- MODULE Spec2Model ----
(***************************************************************************)
(* weatherchaser: the alert escalation engine (src/output/slack.py) and    *)
(* the county-risk pipeline (src/geo/matcher.py, src/classifier.py,        *)
(* src/markets.py).                                                        *)
(*                                                                         *)
(* Spec      : repeated post_alerts runs sharing data/alert_state.json     *)
(* SpecPipe  : _merge_risk -> classify -> classify_markets for one day     *)
(***************************************************************************)
EXTENDS Integers, Sequences, FiniteSets, TLC

VARIABLES
    \* ---- alert engine (Spec) ----
    pc,             \* position of the post_alerts process
    file,           \* content of data/alert_state.json
    tmp,            \* the mkstemp file of the running _save_state
    state,          \* the dict loaded by _load_state and mutated by _record_sent
    sent_count,     \* local counter of post_alerts
    scan_date,      \* argument of the current (or last) run
    market_results, \* argument of the current (or last) run: (day, market) -> highest_risk
    nws_alerts,     \* argument of the current (or last) run: alerts of the markets' state
    work,           \* the (day, market) pairs the loop of the run iterates over, in order
    idx,            \* loop position in the (day, market) iteration
    runs,           \* number of runs started; also the clock read by datetime.now()
    outcome,        \* how the last run ended, and what it returned
    delivered,      \* history: the notifications the webhook has accepted, in order
    sameSince,      \* history: first run of the current streak of equal scan date and inputs
    fileAtStart,    \* history: content of the state file when the current run started
    faults,         \* history: failed deliveries, failed writes and crashes so far
    undelivered,    \* history: the notifications _post_message failed to deliver
    \* ---- pipeline (SpecPipe) ----
    stage,          \* position in the pipeline
    pday,           \* the forecast day being processed
    day_risks,      \* match_counties: the CountyRisk entries of the day, in insertion order
    hits,           \* history: the polygons merged so far, per county
    arg_cat_min,    \* the categorical_min argument of classify
    arg_data_available, \* the data_available argument of classify
    day_result,     \* the DayResult of classify
    day_markets,    \* the list classify_markets builds for the day
    \* ---- demand windows (SpecWindows) ----
    w_stage,        \* "off", "input" or "done"
    w_results,      \* argument market_results: (day, market) -> highest_risk
    w_scan_date,    \* argument scan_date, as a day number
    w_offsets,      \* <<DEMAND_WINDOW_START_DAYS, DEMAND_WINDOW_END_DAYS>>
    windows,        \* the list compute_windows returns
    \* ---- fetch_spc_outlooks and _run_pipeline (SpecFetch) ----
    f_pc,           \* "off", "fetch", "fetched", "matched", "classified", "markets"
    f_url,          \* position in SPC_URLS
    f_outlooks,     \* local outlooks: day -> polygons parsed so far
    success_count,  \* local counter of fetch_spc_outlooks
    f_result,       \* the mapping fetch_spc_outlooks returns
    any_data,       \* the flag fetch_spc_outlooks returns
    day_fetched,    \* history: the days with a fetch that succeeded
    f_matched,      \* what match_counties returned to _run_pipeline
    f_results,      \* the DayResults classify returned to _run_pipeline
    f_markets,      \* what classify_markets returned to _run_pipeline: day -> MarketResults
    \* ---- match_counties (SpecMatch) ----
    m_pc,           \* "off", "start", "day", "part", "returned", "raised"
    m_outlooks,     \* argument outlooks: day -> polygons
    m_counties,     \* argument counties
    m_days,         \* the days still to iterate, ascending
    m_poly,         \* position in the polygons of the day
    m_parts,        \* sub-polygons of the current polygon still to query
    m_day_risks,    \* local day_risks of the day, in insertion order
    m_results,      \* local results: day -> list of CountyRisk
    m_cands,        \* history: (day, fips) the index query returned
    m_passed,       \* history: (day, fips, polygon) whose within test was true
    m_faults        \* history: polygon parts whose evaluation failed

alertVars == <<pc, file, tmp, state, sent_count, scan_date, market_results,
               nws_alerts, work, idx, runs, outcome, delivered,
               sameSince, fileAtStart, faults, undelivered>>
pipeOwn == <<stage, pday, day_risks, hits, arg_cat_min, arg_data_available,
             day_result, day_markets>>
winVars == <<w_stage, w_results, w_scan_date, w_offsets, windows>>
fetchVars == <<f_pc, f_url, f_outlooks, success_count, f_result, any_data,
               day_fetched, f_matched, f_results, f_markets>>
matchVars == <<m_pc, m_outlooks, m_counties, m_days, m_poly, m_parts,
               m_day_risks, m_results, m_cands, m_passed, m_faults>>
scanVars == <<fetchVars, matchVars>>
pipeVars == <<pipeOwn, winVars, scanVars>>
vars == <<alertVars, pipeVars>>

(***************************************************************************)
(* Bounds                                                                  *)
(***************************************************************************)
MaxRuns == 3
MaxDate == 2
\* Failed deliveries, failed state writes and crashes in one behaviour.
MaxFaults == 1
\* Containment hits merged for one day.
MaxHits == 2
\* Latest scan date given to compute_windows, as a day number.
MaxScanDay == 2
\* Polygons parsed from all the outlook files of one fetch.
MaxFetched == 1
\* Polygon parts of one match_counties call whose evaluation fails.
MaxGeomFaults == 1

(***************************************************************************)
(* Configuration                                                           *)
(***************************************************************************)
\* Two of the configured markets; both list the state "TX".
MarketOrder == <<"DFW", "HOU">>
Markets == {MarketOrder[i] : i \in 1..Len(MarketOrder)}
MarketStates == [m \in Markets |-> <<"TX">>]

\* Forecast days a run may carry results for, and the categorical levels used.
AlertDays == {1, 4}
Absent == -1
RiskChoices == {Absent, 3, 4}

AlertTypes == {"heads_up", "plan_for_it", "it_happened"}

\* Mutant: plan_for_it and it_happened share a level.
AlertLevelFlat(t) == IF t \in {"plan_for_it", "it_happened"} THEN 2 ELSE 1

AlertLevel(t) ==
    CASE t = "heads_up" -> 1
      [] t = "plan_for_it" -> 2
      [] t = "it_happened" -> 3
      [] OTHER -> 0

\* NWS alerts: the event name as its words, and the certainty.
Alert(ev, c) == [event |-> ev, certainty |-> c]
WatchOnly == << Alert(<<"Tornado", "Watch">>, "Possible") >>
WatchAndWarning ==
    << Alert(<<"Tornado", "Watch">>, "Possible"),
       Alert(<<"Severe", "Thunderstorm", "Warning">>, "Likely") >>
ObservedWatch == << Alert(<<"Severe", "Thunderstorm", "Watch">>, "Observed") >>
\* The alert lists a run may be handed for a state.
AlertFeeds == {WatchOnly, WatchAndWarning}
\* All alert lists considered for has_confirmed_warnings.
AllFeeds == {<< >>, WatchOnly, WatchAndWarning, ObservedWatch}

(***************************************************************************)
(* State file and in-memory state                                          *)
(***************************************************************************)
\* A market key that is absent from state["markets"].
NoRecord == [last_alert_type |-> "", storm_id |-> <<0, 0>>, last_alert_time |-> 0]
\* The dict {}: no market recorded, no last_run.
EmptyState == [markets |-> [m \in Markets |-> NoRecord], last_run |-> 0]

NoFile == [kind |-> "missing", data |-> EmptyState]
CorruptFile == [kind |-> "corrupt", data |-> EmptyState]
PartialFile(st) == [kind |-> "partial", data |-> st]
JsonFile(st) == [kind |-> "json", data |-> st]

\* _load_state: the parsed file, or {} when it is missing or does not parse.
LoadState(f) == IF f.kind = "json" THEN f.data ELSE EmptyState

\* f"{scan_date}-day{day}"
StormId(date, day) == <<date, day>>

\* Mutant: an equal level passes the gate.
ShouldSendEqualPasses(market_name, alert_type, storm_id, st) ==
    LET prev == st.markets[market_name]
    IN IF prev = NoRecord THEN TRUE
       ELSE IF prev.storm_id # storm_id THEN TRUE
       ELSE AlertLevel(alert_type) >= AlertLevel(prev.last_alert_type)

\* Mutant: a market with no record does not pass the gate.
ShouldSendNeedsRecord(market_name, alert_type, storm_id, st) ==
    LET prev == st.markets[market_name]
    IN IF prev = NoRecord THEN FALSE
       ELSE IF prev.storm_id # storm_id THEN TRUE
       ELSE AlertLevel(alert_type) > AlertLevel(prev.last_alert_type)

ShouldSend(market_name, alert_type, storm_id, st) ==
    LET prev == st.markets[market_name]
    IN IF prev = NoRecord THEN TRUE
       ELSE IF prev.storm_id # storm_id THEN TRUE
       ELSE AlertLevel(alert_type) > AlertLevel(prev.last_alert_type)

\* Mutant: the markets mapping is rebuilt with the one market.
RecordSentAlone(market_name, alert_type, storm_id, st, now) ==
    [markets |-> [m \in Markets |->
                     IF m = market_name
                     THEN [last_alert_type |-> alert_type, storm_id |-> storm_id,
                           last_alert_time |-> now]
                     ELSE NoRecord],
     last_run |-> now]

RecordSent(market_name, alert_type, storm_id, st, now) ==
    [markets |-> [st.markets EXCEPT ![market_name] =
                     [last_alert_type |-> alert_type,
                      storm_id |-> storm_id,
                      last_alert_time |-> now]],
     last_run |-> now]

(***************************************************************************)
(* Trigger evaluation                                                      *)
(***************************************************************************)
HasConfirmedWarnings(alerts) ==
    \E i \in 1..Len(alerts) :
        \/ alerts[i].certainty = "Observed"
        \/ \E j \in 1..Len(alerts[i].event) : alerts[i].event[j] = "Warning"

RECURSIVE ConcatAlerts(_, _)
ConcatAlerts(nws, states) ==
    IF states = << >> THEN << >>
    ELSE nws[Head(states)] \o ConcatAlerts(nws, Tail(states))

\* market_alerts[short]: the alerts of every state of the market.
MarketAlerts(nws, m) == ConcatAlerts(nws, MarketStates[m])

\* Mutant: the categorical level is looked at before the confirmed warnings.
TriggerTypeLevelFirst(day, highest_risk, alerts) ==
    IF day <= 3 /\ highest_risk >= 4 THEN "plan_for_it"
    ELSE IF day = 1 /\ HasConfirmedWarnings(alerts) THEN "it_happened"
    ELSE IF day >= 4 /\ highest_risk >= 3 THEN "heads_up"
    ELSE "none"

TriggerType(day, highest_risk, alerts) ==
    IF day = 1 /\ HasConfirmedWarnings(alerts) THEN "it_happened"
    ELSE IF day <= 3 /\ highest_risk >= 4 THEN "plan_for_it"
    ELSE IF day >= 4 /\ highest_risk >= 3 THEN "heads_up"
    ELSE "none"

\* sorted(market_results), then each day's list in market order.
RECURSIVE SortedSeq(_)
SortedSeq(S) ==
    IF S = {} THEN << >>
    ELSE LET lo == CHOOSE x \in S : \A y \in S : x <= y
         IN <<lo>> \o SortedSeq(S \ {lo})

RECURSIVE DayList(_, _, _)
DayList(mr, day, i) ==
    IF i > Len(MarketOrder) THEN << >>
    ELSE (IF mr[<<day, MarketOrder[i]>>] # Absent
          THEN << <<day, MarketOrder[i]>> >> ELSE << >>)
         \o DayList(mr, day, i + 1)

RECURSIVE Flatten(_, _)
Flatten(mr, days) ==
    IF days = << >> THEN << >>
    ELSE DayList(mr, Head(days), 1) \o Flatten(mr, Tail(days))

Work(mr) == Flatten(mr, SortedSeq(AlertDays))

(***************************************************************************)
(* post_alerts, one process invocation after the other                     *)
(***************************************************************************)
States == {"TX"}
ScanDates == 1..MaxDate
MarketResultInputs == [AlertDays \X Markets -> RiskChoices]
AlertInputs == [States -> AlertFeeds]
Note(m, sid, t, run) ==
    [market |-> m, storm_id |-> sid, alert_type |-> t, run |-> run]
Outcome(k, v) == [kind |-> k, value |-> v]

InLoop == pc = "loop" /\ idx <= Len(work)
LoopDone == pc = "loop" /\ idx > Len(work)
CurDay == work[idx][1]
CurMarket == work[idx][2]
CurAlerts == MarketAlerts(nws_alerts, CurMarket)
CurType == TriggerType(CurDay, market_results[work[idx]], CurAlerts)
CurStorm == StormId(scan_date, CurDay)

AlertInit ==
    /\ pc = "idle"
    /\ file \in {NoFile, CorruptFile}
    /\ fileAtStart = file
    /\ tmp = NoFile
    /\ state = EmptyState
    /\ sent_count = 0
    /\ scan_date = 1
    /\ market_results \in MarketResultInputs
    /\ nws_alerts = [s \in States |-> << >>]
    /\ work = << >>
    /\ idx = 1
    /\ runs = 0
    /\ outcome = Outcome("none", 0)
    /\ delivered = << >>
    /\ sameSince = 0
    /\ faults = 0
    /\ undelivered = {}

\* post_alerts is entered: the state file is read once, the counter is zero.
\* The market results are those of the scan under way; the scan date and the
\* active alerts are those of the moment.
StartRun ==
    /\ pc = "idle"
    /\ runs < MaxRuns
    /\ \E d \in ScanDates, nws \in AlertInputs :
        /\ d >= scan_date
        /\ scan_date' = d
        /\ nws_alerts' = nws
        /\ sameSince' = IF runs > 0 /\ d = scan_date /\ nws = nws_alerts
                         THEN sameSince ELSE runs + 1
    /\ state' = LoadState(file)
    /\ sent_count' = 0
    /\ work' = Work(market_results)
    /\ idx' = 1
    /\ runs' = runs + 1
    /\ pc' = "loop"
    /\ outcome' = Outcome("running", 0)
    /\ fileAtStart' = file
    /\ UNCHANGED <<file, tmp, delivered, market_results, faults, undelivered, pipeVars>>

\* alert_type is None: continue
NoTrigger ==
    /\ InLoop
    /\ CurType = "none"
    /\ idx' = idx + 1
    /\ UNCHANGED <<pc, file, tmp, state, sent_count, scan_date, market_results,
                   nws_alerts, work, runs, outcome, delivered, sameSince,
                   fileAtStart, faults, undelivered, pipeVars>>

\* not _should_send(...): continue
Suppressed ==
    /\ InLoop
    /\ CurType # "none"
    /\ ~ShouldSend(CurMarket, CurType, CurStorm, state)
    /\ idx' = idx + 1
    /\ UNCHANGED <<pc, file, tmp, state, sent_count, scan_date, market_results,
                   nws_alerts, work, runs, outcome, delivered, sameSince,
                   fileAtStart, faults, undelivered, pipeVars>>

\* _post_message returns True: _record_sent, sent_count += 1
PostOk ==
    /\ InLoop
    /\ CurType # "none"
    /\ ShouldSend(CurMarket, CurType, CurStorm, state)
    /\ state' = RecordSent(CurMarket, CurType, CurStorm, state, runs)
    /\ sent_count' = sent_count + 1
    /\ delivered' = Append(delivered, Note(CurMarket, CurStorm, CurType, runs))
    /\ idx' = idx + 1
    /\ UNCHANGED <<pc, file, tmp, scan_date, market_results, nws_alerts, work,
                   runs, outcome, sameSince, fileAtStart, faults, undelivered, pipeVars>>

\* Mutant: the state is updated although _post_message returned False.
PostFailRecords ==
    /\ InLoop
    /\ CurType # "none"
    /\ ShouldSend(CurMarket, CurType, CurStorm, state)
    /\ faults < MaxFaults
    /\ faults' = faults + 1
    /\ undelivered' = undelivered \cup {Note(CurMarket, CurStorm, CurType, runs)}
    /\ state' = RecordSent(CurMarket, CurType, CurStorm, state, runs)
    /\ idx' = idx + 1
    /\ UNCHANGED <<pc, file, tmp, sent_count, scan_date, market_results,
                   nws_alerts, work, runs, outcome, delivered, sameSince,
                   fileAtStart, pipeVars>>

\* _post_message returns False
PostFail ==
    /\ InLoop
    /\ CurType # "none"
    /\ ShouldSend(CurMarket, CurType, CurStorm, state)
    /\ faults < MaxFaults
    /\ faults' = faults + 1
    /\ undelivered' = undelivered \cup {Note(CurMarket, CurStorm, CurType, runs)}
    /\ idx' = idx + 1
    /\ UNCHANGED <<pc, file, tmp, state, sent_count, scan_date, market_results,
                   nws_alerts, work, runs, outcome, delivered, sameSince,
                   fileAtStart, pipeVars>>

\* The process is over: its locals are gone.
EndRun(k, v) ==
    /\ pc' = "idle"
    /\ outcome' = Outcome(k, v)
    /\ state' = EmptyState
    /\ sent_count' = 0
    /\ work' = << >>
    /\ idx' = 1
    /\ faults' = IF k = "returned" THEN faults ELSE faults + 1
    /\ UNCHANGED <<scan_date, market_results, nws_alerts, runs, delivered,
                   sameSince, fileAtStart, undelivered, pipeVars>>

\* _save_state: tempfile.mkstemp in the directory of the state file
SaveMkstemp ==
    /\ LoopDone
    /\ tmp' = PartialFile(EmptyState)
    /\ pc' = "dump"
    /\ UNCHANGED <<file, state, sent_count, scan_date, market_results, nws_alerts,
                   work, idx, runs, outcome, delivered, sameSince,
                   fileAtStart, faults, undelivered, pipeVars>>

\* Mutant: json.dump writes to the state file itself.
SaveDumpInPlace ==
    /\ pc = "dump"
    /\ file' = PartialFile(state)
    /\ pc' = "close"
    /\ UNCHANGED <<tmp, state, sent_count, scan_date, market_results, nws_alerts,
                   work, idx, runs, outcome, delivered, sameSince,
                   fileAtStart, faults, undelivered, pipeVars>>

\* json.dump: some of the text is in the temp file
SaveDump ==
    /\ pc = "dump"
    /\ tmp' = PartialFile(state)
    /\ pc' = "close"
    /\ UNCHANGED <<file, state, sent_count, scan_date, market_results, nws_alerts,
                   work, idx, runs, outcome, delivered, sameSince,
                   fileAtStart, faults, undelivered, pipeVars>>

\* the with block closes the temp file: all of the text is in it
SaveClose ==
    /\ pc = "close"
    /\ tmp' = JsonFile(state)
    /\ pc' = "replace"
    /\ UNCHANGED <<file, state, sent_count, scan_date, market_results, nws_alerts,
                   work, idx, runs, outcome, delivered, sameSince,
                   fileAtStart, faults, undelivered, pipeVars>>

\* What os.replace(tmp, _STATE_PATH) leaves at _STATE_PATH.
Replaced(old, new) == new

\* os.replace, then post_alerts returns sent_count
SaveReplace ==
    /\ pc = "replace"
    /\ file' = Replaced(file, tmp)
    /\ tmp' = NoFile
    /\ EndRun("returned", sent_count)

\* makedirs or mkstemp raises (no temp file yet), or the try block raises:
\* the temp file is unlinked and the exception leaves post_alerts.
SaveRaise ==
    /\ LoopDone \/ pc \in {"dump", "close", "replace"}
    /\ faults < MaxFaults
    /\ tmp' = NoFile
    /\ file' = file
    /\ EndRun("raised", 0)

\* The process stops at any point; a temp file it leaves behind has a name no
\* later mkstemp returns, and is not tracked further.
Crash ==
    /\ pc # "idle"
    /\ faults < MaxFaults
    /\ tmp' = NoFile
    /\ file' = file
    /\ EndRun("crashed", 0)

(***************************************************************************)
(* County-risk pipeline: match_counties / _merge_risk, classify,           *)
(* classify_markets, for the polygons and the flagged counties of one day  *)
(***************************************************************************)
\* A catalog of four counties: two of DFW, one of HOU, one of no modelled market.
Counties == {"48439", "48113", "48201", "40109"}
CountyState(fips) == IF fips = "40109" THEN "OK" ELSE "TX"
\* Market.fips_codes
MarketFips == [m \in Markets |->
                 IF m = "DFW" THEN <<"48439", "48113">> ELSE <<"48201">>]
PipeDays == {1, 4}

\* CAT_THRESHOLDS
SpcCategoricalMin == 4
HailProbMin == 15
TornadoProbMin == 5
WindProbMin == 15
\* categorical_min is None
NoOverride == -1
CatMinChoices == {NoOverride, 0, 3}

\* RiskPolygon, without its geometry: the polygons a county's point may fall in.
RiskPolygon(t, lvl, sig) == [outlook_type |-> t, risk_level |-> lvl, significant |-> sig]
Polygons ==
    { RiskPolygon("categorical", 3, FALSE),
      RiskPolygon("categorical", 4, FALSE),
      RiskPolygon("hail", 5, FALSE),
      RiskPolygon("hail", 15, FALSE),
      RiskPolygon("tornado", 2, FALSE),
      RiskPolygon("tornado", 5, FALSE),
      RiskPolygon("wind", 5, FALSE),
      RiskPolygon("wind", 15, FALSE),
      RiskPolygon("probabilistic", 15, FALSE),
      RiskPolygon("hail", 0, TRUE) }

\* CountyRisk(county=county, day=day)
CountyRisk(fips, day) ==
    [fips |-> fips, state_abbr |-> CountyState(fips), day |-> day,
     categorical_level |-> 0, hail_prob |-> 0, tornado_prob |-> 0,
     wind_prob |-> 0, significant |-> FALSE]

Max(a, b) == IF a >= b THEN a ELSE b

\* Mutant: no early return after a significant hit.
MergeRiskSignificantFallsThrough(existing, polygon) ==
    LET e == IF polygon.significant THEN [existing EXCEPT !.significant = TRUE]
             ELSE existing
    IN CASE polygon.outlook_type = "categorical" ->
              [e EXCEPT !.categorical_level = Max(@, polygon.risk_level)]
         [] polygon.outlook_type = "hail" ->
              [e EXCEPT !.hail_prob = Max(@, polygon.risk_level)]
         [] polygon.outlook_type = "tornado" ->
              [e EXCEPT !.tornado_prob = Max(@, polygon.risk_level)]
         [] polygon.outlook_type = "wind" ->
              [e EXCEPT !.wind_prob = Max(@, polygon.risk_level)]
         [] polygon.outlook_type = "probabilistic" ->
              [e EXCEPT !.hail_prob = Max(@, polygon.risk_level),
                        !.wind_prob = Max(@, polygon.risk_level)]
         [] OTHER -> e

\* Mutant: a categorical hit overwrites the level.
MergeRiskLastWins(existing, polygon) ==
    IF polygon.significant
    THEN [existing EXCEPT !.significant = TRUE]
    ELSE CASE polygon.outlook_type = "categorical" ->
                [existing EXCEPT !.categorical_level = polygon.risk_level]
           [] polygon.outlook_type = "hail" ->
                [existing EXCEPT !.hail_prob = Max(@, polygon.risk_level)]
           [] polygon.outlook_type = "tornado" ->
                [existing EXCEPT !.tornado_prob = Max(@, polygon.risk_level)]
           [] polygon.outlook_type = "wind" ->
                [existing EXCEPT !.wind_prob = Max(@, polygon.risk_level)]
           [] polygon.outlook_type = "probabilistic" ->
                [existing EXCEPT !.hail_prob = Max(@, polygon.risk_level),
                                 !.wind_prob = Max(@, polygon.risk_level)]
           [] OTHER -> existing

\* Mutant: a combined-probability hit raises the tornado probability too.
MergeRiskProbabilisticAll(existing, polygon) ==
    IF polygon.significant
    THEN [existing EXCEPT !.significant = TRUE]
    ELSE CASE polygon.outlook_type = "categorical" ->
                [existing EXCEPT !.categorical_level = Max(@, polygon.risk_level)]
           [] polygon.outlook_type = "hail" ->
                [existing EXCEPT !.hail_prob = Max(@, polygon.risk_level)]
           [] polygon.outlook_type = "tornado" ->
                [existing EXCEPT !.tornado_prob = Max(@, polygon.risk_level)]
           [] polygon.outlook_type = "wind" ->
                [existing EXCEPT !.wind_prob = Max(@, polygon.risk_level)]
           [] polygon.outlook_type = "probabilistic" ->
                [existing EXCEPT !.hail_prob = Max(@, polygon.risk_level),
                                 !.tornado_prob = Max(@, polygon.risk_level),
                                 !.wind_prob = Max(@, polygon.risk_level)]
           [] OTHER -> existing

\* Mutant: a hail hit overwrites the hail probability.
MergeRiskHailOverwrites(existing, polygon) ==
    IF polygon.significant
    THEN [existing EXCEPT !.significant = TRUE]
    ELSE CASE polygon.outlook_type = "categorical" ->
                [existing EXCEPT !.categorical_level = Max(@, polygon.risk_level)]
           [] polygon.outlook_type = "hail" ->
                [existing EXCEPT !.hail_prob = polygon.risk_level]
           [] polygon.outlook_type = "tornado" ->
                [existing EXCEPT !.tornado_prob = Max(@, polygon.risk_level)]
           [] polygon.outlook_type = "wind" ->
                [existing EXCEPT !.wind_prob = Max(@, polygon.risk_level)]
           [] polygon.outlook_type = "probabilistic" ->
                [existing EXCEPT !.hail_prob = Max(@, polygon.risk_level),
                                 !.wind_prob = Max(@, polygon.risk_level)]
           [] OTHER -> existing

MergeRisk(existing, polygon) ==
    IF polygon.significant
    THEN [existing EXCEPT !.significant = TRUE]
    ELSE CASE polygon.outlook_type = "categorical" ->
                [existing EXCEPT !.categorical_level = Max(@, polygon.risk_level)]
           [] polygon.outlook_type = "hail" ->
                [existing EXCEPT !.hail_prob = Max(@, polygon.risk_level)]
           [] polygon.outlook_type = "tornado" ->
                [existing EXCEPT !.tornado_prob = Max(@, polygon.risk_level)]
           [] polygon.outlook_type = "wind" ->
                [existing EXCEPT !.wind_prob = Max(@, polygon.risk_level)]
           [] polygon.outlook_type = "probabilistic" ->
                [existing EXCEPT !.hail_prob = Max(@, polygon.risk_level),
                                 !.wind_prob = Max(@, polygon.risk_level)]
           [] OTHER -> existing

\* Position of the county in day_risks (insertion order), 0 when it has no entry.
IndexOf(risks, fips) ==
    IF \E i \in 1..Len(risks) : risks[i].fips = fips
    THEN CHOOSE i \in 1..Len(risks) : risks[i].fips = fips
    ELSE 0

\* Mutant: every hit appends a new record, no lookup by county id.
MergeHitIntoAppend(risks, fips, day, polygon) ==
    Append(risks, MergeRisk(CountyRisk(fips, day), polygon))

\* One containment hit of match_counties: create the entry on the first hit,
\* then _merge_risk.
MergeHitInto(risks, fips, day, polygon) ==
    LET at == IndexOf(risks, fips)
        withEntry == IF at = 0 THEN Append(risks, CountyRisk(fips, day)) ELSE risks
        k == IF at = 0 THEN Len(withEntry) ELSE at
    IN [withEntry EXCEPT ![k] = MergeRisk(@, polygon)]

\* Mutant: "categorical_min or default": the override 0 counts as none.
MeetsThresholdZeroIsNone(risk, categorical_min) ==
    IF risk.significant THEN TRUE
    ELSE LET cat_min == IF categorical_min # NoOverride /\ categorical_min # 0
                        THEN categorical_min ELSE SpcCategoricalMin
         IN \/ risk.categorical_level >= cat_min
            \/ risk.hail_prob >= HailProbMin
            \/ risk.tornado_prob >= TornadoProbMin
            \/ risk.wind_prob >= WindProbMin

MeetsThreshold(risk, categorical_min) ==
    IF risk.significant THEN TRUE
    ELSE LET cat_min == IF categorical_min # NoOverride
                        THEN categorical_min ELSE SpcCategoricalMin
         IN \/ risk.categorical_level >= cat_min
            \/ risk.hail_prob >= HailProbMin
            \/ risk.tornado_prob >= TornadoProbMin
            \/ risk.wind_prob >= WindProbMin

BoolInt(b) == IF b THEN 1 ELSE 0

\* The sort key of classify; aggregate_by_state sorts by its first component.
SortKey(r) == << -r.categorical_level, -r.hail_prob, -r.tornado_prob,
                 -r.wind_prob, -BoolInt(r.significant) >>

\* Tuple comparison on the first n components.
RECURSIVE TupleLess(_, _, _, _)
TupleLess(a, b, i, n) ==
    IF i > n THEN FALSE
    ELSE IF a[i] # b[i] THEN a[i] < b[i]
    ELSE TupleLess(a, b, i + 1, n)

\* Mutant: x goes before the elements whose key is equal (not stable).
RECURSIVE InsertByKeyBeforeEqual(_, _, _)
InsertByKeyBeforeEqual(sorted, x, n) ==
    IF sorted = << >> THEN <<x>>
    ELSE IF ~TupleLess(SortKey(Head(sorted)), SortKey(x), 1, n) THEN <<x>> \o sorted
    ELSE <<Head(sorted)>> \o InsertByKeyBeforeEqual(Tail(sorted), x, n)

\* list.sort and sorted are stable: x goes after every element whose key is
\* not greater. The key is the first n components of SortKey.
RECURSIVE InsertByKey(_, _, _)
InsertByKey(sorted, x, n) ==
    IF sorted = << >> THEN <<x>>
    ELSE IF TupleLess(SortKey(x), SortKey(Head(sorted)), 1, n) THEN <<x>> \o sorted
    ELSE <<Head(sorted)>> \o InsertByKey(Tail(sorted), x, n)

RECURSIVE StableSort(_, _)
StableSort(seq, n) ==
    IF seq = << >> THEN << >>
    ELSE InsertByKey(StableSort(SubSeq(seq, 1, Len(seq) - 1), n), seq[Len(seq)], n)

FilterThreshold(county_risks, categorical_min) ==
    SelectSeq(county_risks, LAMBDA r : MeetsThreshold(r, categorical_min))

MaxOf(S) == CHOOSE x \in S : \A y \in S : x >= y

AggregateByState(county_risks) ==
    LET abbrs == {county_risks[i].state_abbr : i \in 1..Len(county_risks)}
        of(a) == SelectSeq(county_risks, LAMBDA r : r.state_abbr = a)
    IN [a \in abbrs |->
          [count |-> Len(of(a)),
           highest_risk |-> MaxOf({of(a)[i].categorical_level : i \in 1..Len(of(a))}),
           counties |-> StableSort(of(a), 1)]]

\* Mutant: data_available and bool(flagged).
ClassifyAvailableIfFlagged(day, county_risks, data_available, categorical_min) ==
    LET fl == StableSort(FilterThreshold(county_risks, categorical_min), 5)
    IN [day |-> day,
        county_risks |-> fl,
        state_summaries |-> IF fl # << >> THEN AggregateByState(fl) ELSE << >>,
        data_available |-> data_available /\ fl # << >>]

\* Mutant: aggregate_by_state is given the flagged list before it is sorted.
ClassifyAggregateFirst(day, county_risks, data_available, categorical_min) ==
    LET un == FilterThreshold(county_risks, categorical_min)
    IN [day |-> day,
        county_risks |-> StableSort(un, 5),
        state_summaries |-> IF un # << >> THEN AggregateByState(un) ELSE << >>,
        data_available |-> data_available]

\* The DayResult classify appends for one day.
Classify(day, county_risks, data_available, categorical_min) ==
    LET fl == StableSort(FilterThreshold(county_risks, categorical_min), 5)
    IN [day |-> day,
        county_risks |-> fl,
        state_summaries |-> IF fl # << >> THEN AggregateByState(fl) ELSE << >>,
        data_available |-> data_available]

SeqToSet(seq) == {seq[i] : i \in 1..Len(seq)}

\* Mutant: only the first member county of the market is looked up.
MatchedRisksFirstCode(dr, m) ==
    {r \in {dr.county_risks[i] : i \in 1..Len(dr.county_risks)} :
        r.fips = MarketFips[m][1]}

\* matched = [fips_to_risk[f] for f in fips_set if f in fips_to_risk]; the
\* iteration order of a set of strings is not fixed, so matched is kept as a set.
MatchedRisks(dr, m) ==
    {r \in SeqToSet(dr.county_risks) : r.fips \in SeqToSet(MarketFips[m])}

\* Mutant: the fields of one matched county instead of the maxima.
MarketResultOneCounty(dr, m) ==
    LET matched == MatchedRisks(dr, m)
        one == CHOOSE r \in matched : TRUE
    IN [market |-> m,
        day |-> dr.day,
        highest_risk |-> one.categorical_level,
        affected_counties |-> Cardinality(matched),
        total_counties |-> Len(MarketFips[m]),
        max_hail |-> one.hail_prob,
        max_tornado |-> one.tornado_prob,
        max_wind |-> one.wind_prob,
        significant |-> one.significant,
        county_risks |-> matched]

MarketResult(dr, m) ==
    LET matched == MatchedRisks(dr, m)
    IN [market |-> m,
        day |-> dr.day,
        highest_risk |-> MaxOf({r.categorical_level : r \in matched}),
        affected_counties |-> Cardinality(matched),
        total_counties |-> Len(MarketFips[m]),
        max_hail |-> MaxOf({r.hail_prob : r \in matched}),
        max_tornado |-> MaxOf({r.tornado_prob : r \in matched}),
        max_wind |-> MaxOf({r.wind_prob : r \in matched}),
        significant |-> \E r \in matched : r.significant,
        county_risks |-> matched]

\* A market with no matched county is skipped.
EmitsResult(dr, m) == MatchedRisks(dr, m) # {}

RECURSIVE DayMarkets(_, _)
DayMarkets(dr, i) ==
    IF i > Len(MarketOrder) THEN << >>
    ELSE (IF EmitsResult(dr, MarketOrder[i])
          THEN << MarketResult(dr, MarketOrder[i]) >> ELSE << >>)
         \o DayMarkets(dr, i + 1)

\* classify_markets, for one DayResult
ClassifyMarkets(dr) == DayMarkets(dr, 1)

NoHits == [c \in Counties |-> {}]
NoDayResult == [day |-> 0, county_risks |-> << >>, state_summaries |-> << >>,
                data_available |-> TRUE]

\* The pipeline is not running (Spec).
PipeIdle ==
    /\ stage = "off"
    /\ pday = 0
    /\ day_risks = << >>
    /\ hits = NoHits
    /\ arg_cat_min = NoOverride
    /\ arg_data_available = TRUE
    /\ day_result = NoDayResult
    /\ day_markets = << >>

\* The alert engine is not running (SpecPipe).
AlertIdle ==
    /\ AlertInit
    /\ file = NoFile
    /\ market_results = [p \in AlertDays \X Markets |-> Absent]

PipeInit ==
    /\ stage = "match"
    /\ pday \in PipeDays
    /\ day_risks = << >>
    /\ hits = NoHits
    /\ arg_cat_min = NoOverride
    /\ arg_data_available = TRUE
    /\ day_result = NoDayResult
    /\ day_markets = << >>

TotalHits == LET RECURSIVE Sum(_)
                 Sum(S) == IF S = {} THEN 0
                           ELSE LET c == CHOOSE x \in S : TRUE
                                IN Cardinality(hits[c]) + Sum(S \ {c})
             IN Sum(Counties)

\* match_counties: the point of a county is within a polygon of the day.
MergeHit ==
    /\ stage = "match"
    /\ TotalHits < MaxHits
    /\ \E fips \in Counties, rp \in Polygons :
        /\ day_risks' = MergeHitInto(day_risks, fips, pday, rp)
        /\ hits' = [hits EXCEPT ![fips] = @ \cup {rp}]
    /\ UNCHANGED <<stage, pday, arg_cat_min, arg_data_available, day_result,
                   day_markets, alertVars, winVars, scanVars>>

\* classify, on what match_counties returned for the day
ClassifyDay ==
    /\ stage = "match"
    /\ \E cm \in CatMinChoices, da \in BOOLEAN :
        /\ arg_cat_min' = cm
        /\ arg_data_available' = da
        /\ day_result' = Classify(pday, day_risks, da, cm)
    /\ stage' = "classified"
    /\ UNCHANGED <<pday, day_risks, hits, day_markets, alertVars, winVars, scanVars>>

\* classify_markets, on the DayResult
ClassifyMarketsDay ==
    /\ stage = "classified"
    /\ day_markets' = ClassifyMarkets(day_result)
    /\ stage' = "markets"
    /\ UNCHANGED <<pday, day_risks, hits, arg_cat_min, arg_data_available,
                   day_result, alertVars, winVars, scanVars>>

(***************************************************************************)
(* compute_windows (src/demand.py)                                         *)
(***************************************************************************)
DemandWindowStartDays == 14
DemandWindowEndDays == 28
\* The configured offsets, and another pair.
OffsetChoices == {<<DemandWindowStartDays, DemandWindowEndDays>>, <<7, 10>>}

WindowDays == {1, 2, 4}
WindowInputs == [WindowDays \X Markets -> RiskChoices]

\* market_days[short_name]: the days on which the market has a MarketResult.
MarketDaysOf(mr, m) == {d \in WindowDays : mr[<<d, m>>] # Absent}

\* Mutant: the last day of the market.
FirstDayIsLast(S) == CHOOSE d \in S : \A e \in S : d >= e

\* day_results.sort(key=lambda x: x[0]); day_results[0]
FirstDay(S) == CHOOSE d \in S : \A e \in S : d <= e

\* scan_date + timedelta(days=n), on day numbers
AddDays(d, n) == d + n

\* Mutant: the window is counted from the scan date.
DemandWindowFromScan(mr, m, scan, offsets) ==
    LET days == MarketDaysOf(mr, m)
        first_day == FirstDay(days)
        storm_date_cal == AddDays(scan, first_day - 1)
    IN [market |-> m,
        storm_date |-> storm_date_cal,
        window_start |-> AddDays(scan, offsets[1]),
        window_end |-> AddDays(scan, offsets[2]),
        trigger_day |-> first_day,
        highest_risk |-> MaxOf({mr[<<d, m>>] : d \in days}),
        confirmed |-> FALSE]

\* Mutant: the risk of the first day only.
DemandWindowAnchorRisk(mr, m, scan, offsets) ==
    LET days == MarketDaysOf(mr, m)
        first_day == FirstDay(days)
        storm_date_cal == AddDays(scan, first_day - 1)
    IN [market |-> m,
        storm_date |-> storm_date_cal,
        window_start |-> AddDays(storm_date_cal, offsets[1]),
        window_end |-> AddDays(storm_date_cal, offsets[2]),
        trigger_day |-> first_day,
        highest_risk |-> mr[<<first_day, m>>],
        confirmed |-> FALSE]

\* The DemandWindow of one market.
DemandWindow(mr, m, scan, offsets) ==
    LET days == MarketDaysOf(mr, m)
        first_day == FirstDay(days)
        storm_date_cal == AddDays(scan, first_day - 1)
    IN [market |-> m,
        storm_date |-> storm_date_cal,
        window_start |-> AddDays(storm_date_cal, offsets[1]),
        window_end |-> AddDays(storm_date_cal, offsets[2]),
        trigger_day |-> first_day,
        highest_risk |-> MaxOf({mr[<<d, m>>] : d \in days}),
        confirmed |-> FALSE]

\* "DFW" < "HOU": the order of str on the short names
NameLess(a, b) == a = "DFW" /\ b = "HOU"

\* (w.storm_date, w.market.short_name) of a < that of b
WindowKeyLess(a, b) ==
    \/ a.storm_date < b.storm_date
    \/ a.storm_date = b.storm_date /\ NameLess(a.market, b.market)

RECURSIVE InsertWindow(_, _)
InsertWindow(sorted, w) ==
    IF sorted = << >> THEN << w >>
    ELSE IF WindowKeyLess(w, Head(sorted)) THEN << w >> \o sorted
    ELSE << Head(sorted) >> \o InsertWindow(Tail(sorted), w)

\* windows.sort(key=...): stable
RECURSIVE SortWindows(_)
SortWindows(seq) ==
    IF seq = << >> THEN << >>
    ELSE InsertWindow(SortWindows(SubSeq(seq, 1, Len(seq) - 1)), seq[Len(seq)])

\* The windows in the order the loop over market_days appends them.
RECURSIVE WindowList(_, _, _, _)
WindowList(mr, scan, offsets, i) ==
    IF i > Len(MarketOrder) THEN << >>
    ELSE (IF MarketDaysOf(mr, MarketOrder[i]) # {}
          THEN << DemandWindow(mr, MarketOrder[i], scan, offsets) >> ELSE << >>)
         \o WindowList(mr, scan, offsets, i + 1)

ComputeWindowsOf(mr, scan, offsets) == SortWindows(WindowList(mr, scan, offsets, 1))

\* compute_windows is not running.
WinIdle ==
    /\ w_stage = "off"
    /\ w_results = [p \in WindowDays \X Markets |-> Absent]
    /\ w_scan_date = 1
    /\ w_offsets = <<DemandWindowStartDays, DemandWindowEndDays>>
    /\ windows = << >>

WinInit ==
    /\ w_stage = "input"
    /\ w_results \in WindowInputs
    /\ w_scan_date \in 1..MaxScanDay
    /\ w_offsets \in OffsetChoices
    /\ windows = << >>

ComputeWindows ==
    /\ w_stage = "input"
    /\ windows' = ComputeWindowsOf(w_results, w_scan_date, w_offsets)
    /\ w_stage' = "done"
    /\ UNCHANGED <<w_results, w_scan_date, w_offsets, alertVars, pipeOwn, scanVars>>

(***************************************************************************)
(* fetch_spc_outlooks (src/sources/spc.py) and the rest of _run_pipeline   *)
(* (src/main.py)                                                           *)
(***************************************************************************)
\* SPC_URLS: (day, outlook_type)
\* Mutant: a categorical outlook is configured for day 4.
SpcUrlsDay4Categorical ==
    << <<1, "categorical">>, <<1, "hail">>, <<1, "tornado">>, <<1, "wind">>,
       <<2, "categorical">>, <<2, "hail">>, <<2, "tornado">>, <<2, "wind">>,
       <<3, "categorical">>, <<3, "probabilistic">>,
       <<4, "categorical">>,
       <<4, "probabilistic">>, <<5, "probabilistic">>, <<6, "probabilistic">>,
       <<7, "probabilistic">>, <<8, "probabilistic">> >>

SpcUrls ==
    << <<1, "categorical">>, <<1, "hail">>, <<1, "tornado">>, <<1, "wind">>,
       <<2, "categorical">>, <<2, "hail">>, <<2, "tornado">>, <<2, "wind">>,
       <<3, "categorical">>, <<3, "probabilistic">>,
       <<4, "probabilistic">>, <<5, "probabilistic">>, <<6, "probabilistic">>,
       <<7, "probabilistic">>, <<8, "probabilistic">> >>

\* range(1, 9)
OutlookDays == 1..8

\* The polygon _parse_features may return for an outlook file of the type.
FetchPolygon(t) ==
    RiskPolygon(t, IF t = "categorical" THEN 4 ELSE IF t = "tornado" THEN 5 ELSE 15,
                FALSE)

RECURSIVE SumLen(_, _)
SumLen(f, S) ==
    IF S = {} THEN 0
    ELSE LET d == CHOOSE x \in S : TRUE IN Len(f[d]) + SumLen(f, S \ {d})

\* Mutant: dict(outlooks): only the keys the loop touched with polygons.
FetchResultSparse(outlooks) ==
    [day \in {d \in OutlookDays : outlooks[d] # << >>} |-> outlooks[day]]

\* result[day] = list(outlooks.get(day, [])) for day in range(1, 9)
FetchResult(outlooks) == [day \in OutlookDays |-> outlooks[day]]

\* Mutant: every county of the catalog is taken as a hit, without the within test.
MergePartNoWithin(risks, day, rp, inside) ==
    LET RECURSIVE All(_, _)
        All(r, cs) == IF cs = << >> THEN r
                      ELSE All(MergeHitInto(r, Head(cs), day, rp), Tail(cs))
    IN All(risks, m_counties)

\* One containment hit of the polygon for each county of inside, in order.
RECURSIVE MergePart(_, _, _, _)
MergePart(risks, day, rp, inside) ==
    IF inside = << >> THEN risks
    ELSE MergePart(MergeHitInto(risks, Head(inside), day, rp), day, rp, Tail(inside))

RECURSIVE MatchDayUniform(_, _, _, _)
MatchDayUniform(risks, day, polys, inside) ==
    IF polys = << >> THEN risks
    ELSE MatchDayUniform(MergePart(risks, day, Head(polys), inside), day,
                         Tail(polys), inside)

\* match_counties when every polygon is one Polygon that contains the points
\* of the counties of inside and no other.
MatchCountiesUniform(outlooks, counties, inside) ==
    IF counties = << >> THEN << >>
    ELSE [d \in DOMAIN outlooks |-> MatchDayUniform(<< >>, d, outlooks[d], inside)]

\* The county catalog: empty (nothing left by the state filter) or two counties.
CatalogChoices == {<< >>, <<"48439", "48201">>}

\* classify: one DayResult per day key, ascending
RECURSIVE ClassifyDays(_, _, _, _)
ClassifyDays(matched, days, data_available, categorical_min) ==
    IF days = << >> THEN << >>
    ELSE << Classify(Head(days), matched[Head(days)], data_available, categorical_min) >>
         \o ClassifyDays(matched, Tail(days), data_available, categorical_min)

ClassifyAll(matched, data_available, categorical_min) ==
    ClassifyDays(matched, SortedSeq(DOMAIN matched), data_available, categorical_min)

\* fetch_spc_outlooks is not running.
FetchIdle ==
    /\ f_pc = "off"
    /\ f_url = 1
    /\ f_outlooks = [d \in OutlookDays |-> << >>]
    /\ success_count = 0
    /\ f_result = << >>
    /\ any_data = FALSE
    /\ day_fetched = {}
    /\ f_matched = << >>
    /\ f_results = << >>
    /\ f_markets = << >>

FetchInit ==
    /\ f_pc = "fetch"
    /\ f_url = 1
    /\ f_outlooks = [d \in OutlookDays |-> << >>]
    /\ success_count = 0
    /\ f_result = << >>
    /\ any_data = FALSE
    /\ day_fetched = {}
    /\ f_matched = << >>
    /\ f_results = << >>
    /\ f_markets = << >>

UrlDay == SpcUrls[f_url][1]
UrlType == SpcUrls[f_url][2]

\* _fetch_geojson returned None
FetchNone ==
    /\ f_pc = "fetch" /\ f_url <= Len(SpcUrls)
    /\ f_url' = f_url + 1
    /\ UNCHANGED <<f_pc, f_outlooks, success_count, f_result, any_data, day_fetched,
                   f_matched, f_results, f_markets, matchVars, alertVars, pipeOwn, winVars>>

\* the file has no features
FetchEmpty ==
    /\ f_pc = "fetch" /\ f_url <= Len(SpcUrls)
    /\ success_count' = success_count + 1
    /\ day_fetched' = day_fetched \cup {UrlDay}
    /\ f_url' = f_url + 1
    /\ UNCHANGED <<f_pc, f_outlooks, f_result, any_data, f_matched, f_results,
                   f_markets, matchVars, alertVars, pipeOwn, winVars>>

\* the file has features; _parse_features keeps none or one of them
FetchParsed ==
    /\ f_pc = "fetch" /\ f_url <= Len(SpcUrls)
    /\ \E polygons \in {<< >>} \cup
                       (IF SumLen(f_outlooks, OutlookDays) < MaxFetched
                        THEN {<< FetchPolygon(UrlType) >>} ELSE {}) :
        f_outlooks' = [f_outlooks EXCEPT ![UrlDay] = @ \o polygons]
    /\ success_count' = success_count + 1
    /\ day_fetched' = day_fetched \cup {UrlDay}
    /\ f_url' = f_url + 1
    /\ UNCHANGED <<f_pc, f_result, any_data, f_matched, f_results,
                   f_markets, matchVars, alertVars, pipeOwn, winVars>>

FetchReturn ==
    /\ f_pc = "fetch" /\ f_url > Len(SpcUrls)
    /\ any_data' = (success_count > 0)
    /\ f_result' = FetchResult(f_outlooks)
    /\ f_pc' = "fetched"
    /\ UNCHANGED <<f_url, f_outlooks, success_count, day_fetched, f_matched, f_results,
                   f_markets, matchVars, alertVars, pipeOwn, winVars>>

\* _run_pipeline: load_counties, the state filter, match_counties
PipelineMatch ==
    /\ f_pc = "fetched"
    /\ \E counties \in CatalogChoices, inside \in {<< >>, <<"48439">>} :
        f_matched' = MatchCountiesUniform(f_result, counties, inside)
    /\ f_pc' = "matched"
    /\ UNCHANGED <<f_url, f_outlooks, success_count, f_result, any_data, day_fetched,
                   f_results, f_markets, matchVars, alertVars, pipeOwn, winVars>>

\* _run_pipeline: classify(matched, data_available=any_data, ...)
PipelineClassify ==
    /\ f_pc = "matched"
    /\ \E cm \in {NoOverride, 3} :
        f_results' = ClassifyAll(f_matched, any_data, cm)
    /\ f_pc' = "classified"
    /\ UNCHANGED <<f_url, f_outlooks, success_count, f_result, any_data, day_fetched,
                   f_matched, f_markets, matchVars, alertVars, pipeOwn, winVars>>

\* classify_markets: market_results[dr.day] = day_markets, for each DayResult
ClassifyMarketsAll(results) ==
    [d \in {results[i].day : i \in 1..Len(results)} |->
        ClassifyMarkets(results[CHOOSE i \in 1..Len(results) : results[i].day = d])]

\* _run_pipeline: market_results = classify_markets(results)
PipelineMarkets ==
    /\ f_pc = "classified"
    /\ f_markets' = ClassifyMarketsAll(f_results)
    /\ f_pc' = "markets"
    /\ UNCHANGED <<f_url, f_outlooks, success_count, f_result, any_data, day_fetched,
                   f_matched, f_results, matchVars, alertVars, pipeOwn, winVars>>

(***************************************************************************)
(* match_counties (src/geo/matcher.py), polygon part by polygon part       *)
(***************************************************************************)
MatchDays == {1, 2}
\* The polygon lists of a day.
DayLists ==
    { << >>,
      << RiskPolygon("categorical", 4, FALSE) >>,
      << RiskPolygon("categorical", 3, FALSE), RiskPolygon("hail", 0, TRUE) >>,
      << RiskPolygon("categorical", 4, FALSE), RiskPolygon("categorical", 3, FALSE) >> }

\* The orders in which the index query may return the counties of S.
HitOrders(S) ==
    {<< >>} \cup {<<a>> : a \in S} \cup {<<a, b>> : <<a, b>> \in {p \in S \X S : p[1] # p[2]}}

\* match_counties is not running.
MatchIdle ==
    /\ m_pc = "off"
    /\ m_outlooks = [d \in MatchDays |-> << >>]
    /\ m_counties = << >>
    /\ m_days = << >>
    /\ m_poly = 1
    /\ m_parts = 0
    /\ m_day_risks = << >>
    /\ m_results = << >>
    /\ m_cands = {}
    /\ m_passed = {}
    /\ m_faults = 0

MatchInit ==
    /\ m_pc = "start"
    /\ m_outlooks \in [MatchDays -> DayLists]
    /\ m_counties \in CatalogChoices
    /\ m_days = << >>
    /\ m_poly = 1
    /\ m_parts = 0
    /\ m_day_risks = << >>
    /\ m_results = << >>
    /\ m_cands = {}
    /\ m_passed = {}
    /\ m_faults = 0

MDay == Head(m_days)
MPolygons == m_outlooks[MDay]

\* if not counties: return {}
MatchNoCounties ==
    /\ m_pc = "start" /\ m_counties = << >>
    /\ m_pc' = "returned"
    /\ UNCHANGED <<m_outlooks, m_counties, m_days, m_poly, m_parts, m_day_risks,
                   m_results, m_cands, m_passed, m_faults,
                   fetchVars, alertVars, pipeOwn, winVars>>

\* the index is built; for day in sorted(outlooks)
MatchBegin ==
    /\ m_pc = "start" /\ m_counties # << >>
    /\ m_days' = SortedSeq(DOMAIN m_outlooks)
    /\ m_pc' = "day"
    /\ UNCHANGED <<m_outlooks, m_counties, m_poly, m_parts, m_day_risks,
                   m_results, m_cands, m_passed, m_faults,
                   fetchVars, alertVars, pipeOwn, winVars>>

\* if not polygons: results[day] = []
DayNoPolygons ==
    /\ m_pc = "day" /\ m_days # << >> /\ MPolygons = << >>
    /\ m_results' = (MDay :> << >>) @@ m_results
    /\ m_days' = Tail(m_days)
    /\ UNCHANGED <<m_pc, m_outlooks, m_counties, m_poly, m_parts, m_day_risks,
                   m_cands, m_passed, m_faults,
                   fetchVars, alertVars, pipeOwn, winVars>>

\* day_risks = {}
DayBegin ==
    /\ m_pc = "day" /\ m_days # << >> /\ MPolygons # << >>
    /\ m_day_risks' = << >>
    /\ m_poly' = 1
    /\ m_parts' = 0
    /\ m_pc' = "poly"
    /\ UNCHANGED <<m_outlooks, m_counties, m_days, m_results, m_cands, m_passed,
                   m_faults, fetchVars, alertVars, pipeOwn, winVars>>

\* sub_polys: the parts of a MultiPolygon, or the Polygon itself
PolyExpand ==
    /\ m_pc = "poly" /\ m_poly <= Len(MPolygons)
    /\ m_parts' \in 1..2
    /\ m_pc' = "part"
    /\ UNCHANGED <<m_outlooks, m_counties, m_days, m_poly, m_day_risks, m_results,
                   m_cands, m_passed, m_faults,
                   fetchVars, alertVars, pipeOwn, winVars>>

\* The loop over sub_polys moves on.
NextPart ==
    /\ m_parts' = m_parts - 1
    /\ m_poly' = IF m_parts = 1 THEN m_poly + 1 ELSE m_poly
    /\ m_pc' = IF m_parts = 1 THEN "poly" ELSE "part"

\* tree.query raises GEOSException: continue
PartQueryFails ==
    /\ m_pc = "part" /\ m_faults < MaxGeomFaults
    /\ m_faults' = m_faults + 1
    /\ NextPart
    /\ UNCHANGED <<m_outlooks, m_counties, m_days, m_day_risks, m_results,
                   m_cands, m_passed, fetchVars, alertVars, pipeOwn, winVars>>

\* tree.query returns the candidates; the points of those in inside are within
\* the part, and are merged in the order of hit_indices
PartEvaluated ==
    /\ m_pc = "part"
    /\ \E cand \in SUBSET SeqToSet(m_counties) :
        \E inside \in HitOrders(cand) :
            /\ m_day_risks' = MergePart(m_day_risks, MDay, MPolygons[m_poly], inside)
            /\ m_cands' = m_cands \cup {<<MDay, c>> : c \in cand}
            /\ m_passed' = m_passed \cup
                             {<<MDay, c, MPolygons[m_poly]>> : c \in SeqToSet(inside)}
    /\ NextPart
    /\ UNCHANGED <<m_outlooks, m_counties, m_days, m_results, m_faults,
                   fetchVars, alertVars, pipeOwn, winVars>>

\* county.centroid.within(poly) raises: nothing catches it in match_counties
PartWithinRaises ==
    /\ m_pc = "part" /\ m_faults < MaxGeomFaults
    /\ \E cand \in SUBSET SeqToSet(m_counties) \ {{}} :
        m_cands' = m_cands \cup {<<MDay, c>> : c \in cand}
    /\ m_faults' = m_faults + 1
    /\ m_pc' = "raised"
    /\ UNCHANGED <<m_outlooks, m_counties, m_days, m_poly, m_parts, m_day_risks,
                   m_results, m_passed, fetchVars, alertVars, pipeOwn, winVars>>

\* results[day] = list(day_risks.values())
DayEnd ==
    /\ m_pc = "poly" /\ m_poly > Len(MPolygons)
    /\ m_results' = (MDay :> m_day_risks) @@ m_results
    /\ m_days' = Tail(m_days)
    /\ m_pc' = "day"
    /\ UNCHANGED <<m_outlooks, m_counties, m_poly, m_parts, m_day_risks,
                   m_cands, m_passed, m_faults,
                   fetchVars, alertVars, pipeOwn, winVars>>

\* return results
MatchReturn ==
    /\ m_pc = "day" /\ m_days = << >>
    /\ m_pc' = "returned"
    /\ UNCHANGED <<m_outlooks, m_counties, m_days, m_poly, m_parts, m_day_risks,
                   m_results, m_cands, m_passed, m_faults,
                   fetchVars, alertVars, pipeOwn, winVars>>

AlertNext ==
    \/ StartRun
    \/ NoTrigger
    \/ Suppressed
    \/ PostOk
    \/ PostFail
    \/ SaveMkstemp
    \/ SaveDump
    \/ SaveClose
    \/ SaveReplace
    \/ SaveRaise
    \/ Crash

Init == AlertInit /\ PipeIdle /\ WinIdle /\ FetchIdle /\ MatchIdle
Next == AlertNext
Spec == Init /\ [][Next]_vars

\* _post_message is one HTTP request with a timeout: it returns. When no
\* further failure is possible, the delivery of a candidate that passed the
\* gate is accepted.
SpecLive == Init /\ [][Next]_vars /\ WF_vars(PostOk)

InitPipe == AlertIdle /\ PipeInit /\ WinIdle /\ FetchIdle /\ MatchIdle
NextPipe ==
    \/ MergeHit
    \/ ClassifyDay
    \/ ClassifyMarketsDay
SpecPipe == InitPipe /\ [][NextPipe]_vars

InitWindows == AlertIdle /\ PipeIdle /\ WinInit /\ FetchIdle /\ MatchIdle
NextWindows == ComputeWindows
SpecWindows == InitWindows /\ [][NextWindows]_vars

InitFetch == AlertIdle /\ PipeIdle /\ WinIdle /\ FetchInit /\ MatchIdle
NextFetch ==
    \/ FetchNone
    \/ FetchEmpty
    \/ FetchParsed
    \/ FetchReturn
    \/ PipelineMatch
    \/ PipelineClassify
    \/ PipelineMarkets
SpecFetch == InitFetch /\ [][NextFetch]_vars

InitMatch == AlertIdle /\ PipeIdle /\ WinIdle /\ FetchIdle /\ MatchInit
NextMatch ==
    \/ MatchNoCounties
    \/ MatchBegin
    \/ DayNoPolygons
    \/ DayBegin
    \/ PolyExpand
    \/ PartQueryFails
    \/ PartEvaluated
    \/ PartWithinRaises
    \/ DayEnd
    \/ MatchReturn
SpecMatch == InitMatch /\ [][NextMatch]_vars

(***************************************************************************)
(* Claims about the alert escalation engine (Spec)                         *)
(***************************************************************************)
SameEpisode(a, b) == a.market = b.market /\ a.storm_id = b.storm_id
\* The record the state file held for market m when the run started.
RecordAtStart(m) == LoadState(fileAtStart).markets[m]
\* The notifications accepted in run r.
NotesOfRun(r) == {i \in 1..Len(delivered) : delivered[i].run = r}
\* The alert lists with a Warning-class event or an Observed certainty.
ConfirmedFeeds == {WatchAndWarning, ObservedWatch}
Confirmed(nws, m) == \E i \in 1..Len(MarketStates[m]) : nws[MarketStates[m][i]] \in ConfirmedFeeds
\* heads_up < plan_for_it < it_happened
StrictlyHigher(a, b) ==
    <<a, b>> \in {<<"plan_for_it", "heads_up">>, <<"it_happened", "heads_up">>,
                 <<"it_happened", "plan_for_it">>}

\* C1: in runs that all complete with every delivery accepted, once a
\* notification has been delivered for a market under an episode id, every
\* later notification for that market and episode id has a strictly higher
\* level.
C1_NoEqualOrLowerAgain ==
    faults = 0 =>
        \A i, j \in 1..Len(delivered) :
            (i < j /\ SameEpisode(delivered[i], delivered[j]))
            => StrictlyHigher(delivered[j].alert_type, delivered[i].alert_type)

\* C2: for every market, every alert type and every episode id of the run, the
\* send gate passes exactly when the market has no record, or the recorded
\* episode id differs, or the episode ids are equal and the candidate level is
\* strictly higher than the recorded one.
C2_SendGate ==
    pc = "loop" =>
        \A m \in Markets, t \in AlertTypes, d \in 1..8 :
            LET prev == state.markets[m]
                sid == StormId(scan_date, d)
            IN ShouldSend(m, t, sid, state)
               <=> \/ prev = NoRecord
                   \/ prev.storm_id # sid
                   \/ prev.storm_id = sid /\ StrictlyHigher(t, prev.last_alert_type)

\* C2 witness: the candidate of the loop is triggered for the recorded episode
\* at the recorded level, and is suppressed.
C2_Witness ==
    /\ InLoop
    /\ CurType # "none"
    /\ state.markets[CurMarket].storm_id = CurStorm
    /\ state.markets[CurMarket].last_alert_type = CurType
    /\ ~ShouldSend(CurMarket, CurType, CurStorm, state)

\* The trigger the claim names for (day, categorical level, confirmed warning).
C3_Expected(day, risk, confirmed) ==
    IF day = 1 /\ confirmed THEN "it_happened"
    ELSE IF day \in {1, 2, 3} /\ risk \in {4, 5, 6} THEN "plan_for_it"
    ELSE IF day \in {4, 5, 6, 7, 8} /\ risk \in {3, 4, 5, 6} THEN "heads_up"
    ELSE "none"

\* C3: the trigger of every (day, level, alert list) is the first match of
\* it_happened (day 1 with a confirmed warning), plan_for_it (day <= 3, level
\* >= 4), heads_up (day >= 4, level >= 3); it_happened is triggered on day 1
\* only; and a loop step on a candidate without trigger sends and records
\* nothing.
C3_TriggerOrder ==
    /\ [](\A d \in 1..8, r \in 0..6, f \in AllFeeds :
            /\ TriggerType(d, r, f) = C3_Expected(d, r, f \in ConfirmedFeeds)
            /\ TriggerType(d, r, f) = "it_happened" => d = 1)
    /\ [](InLoop => CurType = C3_Expected(CurDay, market_results[work[idx]],
                                         Confirmed(nws_alerts, CurMarket)))
    /\ [][(InLoop /\ idx' = idx + 1
           /\ C3_Expected(CurDay, market_results[work[idx]],
                          Confirmed(nws_alerts, CurMarket)) = "none")
          => (state' = state /\ delivered' = delivered /\ sent_count' = sent_count)]_vars

\* C3 witness: day 1, level 4 and a confirmed warning: it_happened wins over
\* plan_for_it.
C3_Witness ==
    /\ InLoop
    /\ CurDay = 1
    /\ market_results[work[idx]] = 4
    /\ Confirmed(nws_alerts, CurMarket)
    /\ CurType = "it_happened"

\* The market is flagged on day 1 only, with categorical level 4.
C4_Scenario(m) ==
    /\ market_results[<<1, m>>] = 4
    /\ \A d \in AlertDays \ {1} : market_results[<<d, m>>] = Absent

\* C4: for a market flagged on day 1 only, at level 4, in runs that complete
\* with every delivery accepted: a run without confirmed warning that starts
\* with no record for the episode sends plan_for_it; a run with a confirmed
\* warning that starts with plan_for_it recorded for the episode sends
\* it_happened; a run with a confirmed warning that starts with it_happened
\* recorded for the episode sends nothing for the market; and what a run sent
\* is the record the next run starts with.
C4_EscalationSequence ==
    (pc = "idle" /\ outcome.kind = "returned" /\ faults = 0) =>
        \A m \in Markets :
            C4_Scenario(m) =>
                LET ep == StormId(scan_date, 1)
                    before == RecordAtStart(m)
                    sent == {delivered[i].alert_type :
                                i \in {k \in NotesOfRun(runs) : delivered[k].market = m}}
                    warned == Confirmed(nws_alerts, m)
                IN /\ (~warned /\ before.storm_id # ep) => sent = {"plan_for_it"}
                   /\ (warned /\ before.storm_id = ep
                       /\ before.last_alert_type = "plan_for_it") => sent = {"it_happened"}
                   /\ (warned /\ before.storm_id = ep
                       /\ before.last_alert_type = "it_happened") => sent = {}
                   /\ \A t \in sent :
                        /\ file.data.markets[m].last_alert_type = t
                        /\ file.data.markets[m].storm_id = ep

\* C4 witness: three runs on one scan date; the first sent plan_for_it, the
\* second it_happened, the third, with a confirmed warning, nothing.
C4_Witness ==
    /\ pc = "idle" /\ outcome.kind = "returned" /\ faults = 0 /\ runs = 3
    /\ \E m \in Markets :
        /\ C4_Scenario(m)
        /\ Confirmed(nws_alerts, m)
        /\ \E i, j \in 1..Len(delivered) :
            /\ delivered[i] = Note(m, StormId(scan_date, 1), "plan_for_it", 1)
            /\ delivered[j] = Note(m, StormId(scan_date, 1), "it_happened", 2)
        /\ ~\E k \in NotesOfRun(3) : delivered[k].market = m

\* C5: the state file never holds a partial write; it holds its previous
\* content during the whole run and after a run that raised or crashed; the
\* only step that changes it is the rename, which puts the complete new
\* content and ends the run normally.
C5_AtomicWrite ==
    /\ [](file.kind # "partial")
    /\ [](pc \in {"loop", "dump", "close", "replace"} => file = fileAtStart)
    /\ [](outcome.kind \in {"raised", "crashed"} => file = fileAtStart)
    /\ [][file' # file => (pc = "replace" /\ file' = JsonFile(state)
                           /\ outcome'.kind = "returned")]_vars

\* C5 witness: the new content is half written to the temp file while the
\* state file still holds the different, complete, previous content.
C5_Witness ==
    /\ pc = "close"
    /\ tmp.kind = "partial"
    /\ file.kind = "json"
    /\ file = fileAtStart
    /\ file.data # state

\* C6: a loop step that delivers sets the market's record to the delivered
\* level and episode id with the time of the run, sets the run-level
\* timestamp, counts one, and leaves every other market's record; a loop step
\* that does not deliver (no trigger, suppressed, delivery failed) leaves the
\* state and the count; a run that returns returns the number of deliveries.
C6_RecordOnlyOnDelivery ==
    /\ [][(InLoop /\ idx' = idx + 1) =>
            IF Len(delivered') = Len(delivered) + 1
            THEN LET n == delivered'[Len(delivered')]
                 IN /\ state'.markets[n.market] =
                          [last_alert_type |-> n.alert_type, storm_id |-> n.storm_id,
                           last_alert_time |-> runs]
                    /\ state'.last_run = runs
                    /\ \A o \in Markets \ {n.market} : state'.markets[o] = state.markets[o]
                    /\ sent_count' = sent_count + 1
            ELSE delivered' = delivered /\ state' = state /\ sent_count' = sent_count]_vars
    /\ [](outcome.kind = "returned" => outcome.value = Cardinality(NotesOfRun(runs)))

\* C6 witness: in the first run, one delivery was accepted and one failed, and
\* the other market still has no record.
C6_Witness ==
    /\ pc = "loop" /\ runs = 1 /\ faults = 1 /\ sent_count = 1
    /\ \E m \in Markets : state.markets[m] = NoRecord

\* C7: a notification (market, episode id, level) delivered in one run is not
\* delivered again by a later run with the same scan date and inputs, crashes
\* included.  Stated for the markets flagged on a single day, whose record no
\* other episode of the scan overwrites.
C7_AtMostOnce ==
    \A i, j \in 1..Len(delivered) :
        (/\ i < j
         /\ delivered[i].run >= sameSince
         /\ SameEpisode(delivered[i], delivered[j])
         /\ Cardinality({d \in AlertDays :
                            market_results[<<d, delivered[i].market>>] # Absent}) = 1)
        => delivered[i].alert_type # delivered[j].alert_type

(***************************************************************************)
(* Claims about the county-risk pipeline (SpecPipe)                        *)
(***************************************************************************)
RECURSIVE MergeAll(_, _)
MergeAll(r, S) ==
    IF S = {} THEN r
    ELSE LET h == CHOOSE x \in S : TRUE
         IN MergeAll(MergeRisk(r, h), S \ {h})

RiskFields(r) == <<r.categorical_level, r.hail_prob, r.tornado_prob, r.wind_prob,
                   r.significant>>

\* C8: whatever the order and the repetitions in which the hits of a county
\* were merged, its CountyRisk is the one obtained by merging each distinct hit
\* once in one fixed order; and on it, merging any two hits in either order,
\* or one hit once or twice, gives the same fields.
C8_MergeIdempotentCommutative ==
    \A i \in 1..Len(day_risks) :
        LET r == day_risks[i]
        IN /\ r = MergeAll(CountyRisk(r.fips, pday), hits[r.fips])
           /\ \A h1, h2 \in Polygons :
                RiskFields(MergeRisk(MergeRisk(r, h1), h2))
                    = RiskFields(MergeRisk(MergeRisk(r, h2), h1))
           /\ \A h \in Polygons :
                RiskFields(MergeRisk(MergeRisk(r, h), h)) = RiskFields(MergeRisk(r, h))

\* C8 witness: a county was hit by the categorical 3 and the categorical 4
\* polygon (in either order).
C8_Witness ==
    \E i \in 1..Len(day_risks) :
        /\ {RiskPolygon("categorical", 3, FALSE), RiskPolygon("categorical", 4, FALSE)}
              \subseteq hits[day_risks[i].fips]
        /\ day_risks[i].categorical_level = 4

\* C9: a CountyRisk of the day is in DayResult.county_risks exactly when it is
\* significant, or its categorical level reaches the minimum (the override
\* when one is passed, 0 included, otherwise 4), or hail >= 15, or tornado
\* >= 5, or wind >= 15; each flagged record appears once.
C9_FlaggedIffThreshold ==
    stage \in {"classified", "markets"} =>
        LET min == IF arg_cat_min = NoOverride THEN 4 ELSE arg_cat_min
            fl == SeqToSet(day_result.county_risks)
        IN /\ fl \subseteq SeqToSet(day_risks)
           /\ Len(day_result.county_risks) = Cardinality(fl)
           /\ \A r \in SeqToSet(day_risks) :
                r \in fl <=> \/ r.significant
                             \/ r.categorical_level >= min
                             \/ r.hail_prob >= 15
                             \/ r.tornado_prob >= 5
                             \/ r.wind_prob >= 15

\* C9 witness: with the override 0, a record below every other threshold is
\* flagged.
C9_Witness ==
    /\ stage = "classified"
    /\ arg_cat_min = 0
    /\ \E i \in 1..Len(day_result.county_risks) :
        LET r == day_result.county_risks[i]
        IN /\ ~r.significant /\ r.categorical_level = 0
           /\ r.hail_prob = 5 /\ r.tornado_prob = 2 /\ r.wind_prob < 15

\* C10: classify_markets emits a MarketResult for a market exactly when one of
\* its member counties is flagged that day, at most one per market, for the
\* day of the DayResult, and never one with no matched county.
C10_MarketSparsity ==
    stage = "markets" =>
        LET flaggedFips == {day_result.county_risks[i].fips :
                               i \in 1..Len(day_result.county_risks)}
            emitted == {day_markets[i].market : i \in 1..Len(day_markets)}
        IN /\ \A m \in Markets :
                m \in emitted <=> (SeqToSet(MarketFips[m]) \cap flaggedFips # {})
           /\ Len(day_markets) = Cardinality(emitted)
           /\ \A i \in 1..Len(day_markets) :
                /\ day_markets[i].day = pday
                /\ day_markets[i].affected_counties # 0
                /\ day_markets[i].county_risks # {}

\* C10 witness: a county of DFW and a county of no market are flagged; DFW
\* alone has a MarketResult.
C10_Witness ==
    /\ stage = "markets"
    /\ Len(day_result.county_risks) = 2
    /\ \E i \in 1..2 : day_result.county_risks[i].fips = "40109"
    /\ Len(day_markets) = 1
    /\ day_markets[1].market = "DFW"
    /\ day_markets[1].affected_counties = 1

\* The record meets one of the five thresholds, with the numbers written out.
MeetsOne(r, min) ==
    \/ r.significant
    \/ r.categorical_level >= min
    \/ r.hail_prob >= 15
    \/ r.tornado_prob >= 5
    \/ r.wind_prob >= 15

\* C14: when no record of the day meets a threshold (the merged set is empty
\* or all its records are below), classify still gives a DayResult for the
\* day, with an empty flagged list, empty state summaries, and the
\* data_available flag it was passed.
C14_EmptyDayKeepsAvailability ==
    (/\ stage \in {"classified", "markets"}
     /\ \A r \in SeqToSet(day_risks) :
            ~MeetsOne(r, IF arg_cat_min = NoOverride THEN 4 ELSE arg_cat_min))
    => /\ day_result.day = pday
       /\ day_result.county_risks = << >>
       /\ day_result.state_summaries = << >>
       /\ day_result.data_available = arg_data_available

\* C14 witness: a day with no merged record was classified with the flag false.
C14_Witness ==
    /\ stage = "classified"
    /\ day_risks = << >>
    /\ arg_data_available = FALSE
    /\ day_result.data_available = FALSE

\* The flagged counties of the day that are members of the market.
MembersFlagged(m) ==
    {r \in SeqToSet(day_result.county_risks) :
        \E i \in 1..Len(MarketFips[m]) : MarketFips[m][i] = r.fips}

IsMaxOf(v, S) == v \in S /\ \A x \in S : x <= v

\* C19: each MarketResult carries the maxima of the categorical level and of
\* the three probabilities over the market's flagged member counties, the
\* disjunction of their significant flags, their number, and the number of
\* configured member counties.
C19_MarketMaxima ==
    stage = "markets" =>
        \A i \in 1..Len(day_markets) :
            LET mr == day_markets[i]
                mem == MembersFlagged(mr.market)
            IN /\ IsMaxOf(mr.highest_risk, {r.categorical_level : r \in mem})
               /\ IsMaxOf(mr.max_hail, {r.hail_prob : r \in mem})
               /\ IsMaxOf(mr.max_tornado, {r.tornado_prob : r \in mem})
               /\ IsMaxOf(mr.max_wind, {r.wind_prob : r \in mem})
               /\ mr.significant = (\E r \in mem : r.significant)
               /\ mr.affected_counties = Cardinality(mem)
               /\ mr.total_counties = Len(MarketFips[mr.market])
               /\ mr.county_risks = mem

\* C19 witness: two member counties of DFW are flagged, one by its categorical
\* level alone and one by its hail probability alone.
C19_Witness ==
    /\ stage = "markets"
    /\ \E i \in 1..Len(day_markets) :
        /\ day_markets[i].market = "DFW"
        /\ day_markets[i].affected_counties = 2
        /\ day_markets[i].highest_risk = 4
        /\ day_markets[i].max_hail = 15
        /\ \E r \in day_markets[i].county_risks :
               r.categorical_level = 0 /\ r.hail_prob = 15
        /\ \E r \in day_markets[i].county_risks :
               r.categorical_level = 4 /\ r.hail_prob = 0

OutlookTypes == {"categorical", "hail", "tornado", "wind", "probabilistic"}

\* C20: on every merged record, merging a significant polygon of any type and
\* any risk level gives the same record with significant set; and no merge
\* step takes the flag of a record back to false or, when the polygon is
\* significant, changes a numeric field.
C20_SignificantSticky ==
    /\ [](\A i \in 1..Len(day_risks) : \A t \in OutlookTypes, lvl \in {0, 5, 30} :
            MergeRisk(day_risks[i], RiskPolygon(t, lvl, TRUE))
                = [day_risks[i] EXCEPT !.significant = TRUE])
    /\ [][\A i \in 1..Len(day_risks) :
            /\ day_risks[i].significant => day_risks'[i].significant
            /\ (\E rp \in hits'[day_risks[i].fips] \ hits[day_risks[i].fips] :
                    rp.significant)
               => /\ day_risks'[i].significant
                  /\ RiskFields([day_risks'[i] EXCEPT !.significant = FALSE])
                       = RiskFields([day_risks[i] EXCEPT !.significant = FALSE])]_vars

\* C20 witness: a county was hit by the hatched polygon and by the
\* categorical 4 polygon.
C20_Witness ==
    \E i \in 1..Len(day_risks) :
        /\ day_risks[i].significant
        /\ day_risks[i].categorical_level = 4
        /\ RiskPolygon("hail", 0, TRUE) \in hits[day_risks[i].fips]

(***************************************************************************)
(* Claims about compute_windows (SpecWindows)                              *)
(***************************************************************************)
WindowsOf(m) == {i \in 1..Len(windows) : windows[i].market = m}

\* C12: compute_windows returns one DemandWindow for each market that has a
\* MarketResult on some day and none for the others; its trigger_day is the
\* smallest day of the market, and its storm_date is scan_date plus
\* trigger_day - 1 days.
C12_OneWindowPerMarket ==
    w_stage = "done" =>
        \A m \in Markets :
            LET days == {d \in WindowDays : w_results[<<d, m>>] # Absent}
            IN /\ Cardinality(WindowsOf(m)) = IF days = {} THEN 0 ELSE 1
               /\ \A i \in WindowsOf(m) :
                    /\ windows[i].trigger_day \in days
                    /\ \A d \in days : windows[i].trigger_day <= d
                    /\ windows[i].storm_date = w_scan_date + (windows[i].trigger_day - 1)

\* C12 witness: one market has results on days 2 and 4, the other on no day.
C12_Witness ==
    /\ w_stage = "done"
    /\ Len(windows) = 1
    /\ windows[1].trigger_day = 2
    /\ w_results[<<4, windows[1].market>>] # Absent
    /\ windows[1].storm_date = w_scan_date + 1

\* C13: each window starts and ends at its storm date plus the two configured
\* offsets; with the default configuration that is 14 and 28 days, so the
\* storm date is before the start and the start before the end.
C13_WindowOffsets ==
    w_stage = "done" =>
        \A i \in 1..Len(windows) :
            /\ windows[i].window_start = windows[i].storm_date + w_offsets[1]
            /\ windows[i].window_end = windows[i].storm_date + w_offsets[2]
            /\ w_offsets = <<14, 28>> =>
                /\ windows[i].window_start = windows[i].storm_date + 14
                /\ windows[i].window_end = windows[i].storm_date + 28
                /\ windows[i].storm_date < windows[i].window_start
                /\ windows[i].window_start < windows[i].window_end

\* C13 witness: with the default offsets, a window whose storm date is three
\* days after the scan date.
C13_Witness ==
    /\ w_stage = "done"
    /\ w_offsets = <<14, 28>>
    /\ \E i \in 1..Len(windows) :
        /\ windows[i].trigger_day = 4
        /\ windows[i].window_start = w_scan_date + 3 + 14
        /\ windows[i].window_end = w_scan_date + 3 + 28

(***************************************************************************)
(* Claims about match_counties (SpecMatch)                                 *)
(***************************************************************************)
\* The call is inside the loop of a day (or stopped there by an exception).
MInDay == m_pc \in {"poly", "part", "raised"}

\* match_counties has created a CountyRisk for the county on the day.
HasCountyRisk(d, c) ==
    \/ d \in DOMAIN m_results /\ \E i \in 1..Len(m_results[d]) : m_results[d][i].fips = c
    \/ MInDay /\ d = MDay /\ \E i \in 1..Len(m_day_risks) : m_day_risks[i].fips = c

\* C11: at every point of match_counties, a CountyRisk exists for (county,
\* day) exactly when the within test of some polygon part of the day was true
\* for the county's point; being a candidate of the index query is not enough.
C11_RiskIffContained ==
    \A d \in MatchDays, c \in Counties :
        HasCountyRisk(d, c) <=> \E h \in m_passed : h[1] = d /\ h[2] = c

\* C11 witness: the call returned; on one day a county was a candidate of the
\* index query and never within a part, and has no CountyRisk, while the
\* other county has one.
C11_Witness ==
    /\ m_pc = "returned"
    /\ \E d \in MatchDays, c, o \in Counties :
        /\ <<d, c>> \in m_cands
        /\ ~\E h \in m_passed : h[1] = d /\ h[2] = c
        /\ ~HasCountyRisk(d, c)
        /\ HasCountyRisk(d, o)

\* C16: when the evaluation of a polygon part has failed, the call does not
\* end with an exception, and when it has returned, every day has its entry
\* and every hit of the parts that were evaluated is merged.
C16_FailureIsolated ==
    m_faults > 0 =>
        /\ m_pc # "raised"
        /\ m_pc = "returned" =>
            /\ DOMAIN m_results = MatchDays
            /\ \A h \in m_passed :
                \E i \in 1..Len(m_results[h[1]]) :
                    m_results[h[1]][i] =
                        MergeAll(CountyRisk(h[2], h[1]),
                                 {g[3] : g \in {x \in m_passed : x[1] = h[1] /\ x[2] = h[2]}})

\* C17: when match_counties has returned, its result has an entry for every
\* day key of outlooks, and the entry of a day with no polygons is empty.
C17_EveryDayKey ==
    m_pc = "returned" =>
        /\ DOMAIN m_results = DOMAIN m_outlooks
        /\ \A d \in DOMAIN m_outlooks : m_outlooks[d] = << >> => m_results[d] = << >>

(***************************************************************************)
(* Claims about fetch_spc_outlooks and _run_pipeline (SpecFetch)           *)
(***************************************************************************)
\* C15: when some fetch succeeded and every fetch of day D failed, the
\* DayResult of D has data_available false.
C15_DayUnavailablePropagated ==
    f_pc = "classified" =>
        \A D \in OutlookDays :
            (day_fetched # {} /\ D \notin day_fetched) =>
                \A i \in 1..Len(f_results) :
                    f_results[i].day = D => ~f_results[i].data_available

\* C18: whatever the outcome of each fetch, the mapping returned has exactly
\* the keys 1..8, each day maps to the polygons parsed for it, and a day with
\* no fetch that succeeded maps to the empty list.
C18_AllDayKeys ==
    f_pc \in {"fetched", "matched", "classified"} =>
        /\ DOMAIN f_result = 1..8
        /\ \A d \in 1..8 :
            /\ f_result[d] = f_outlooks[d]
            /\ d \notin day_fetched => f_result[d] = << >>

\* C18 witness: the fetch returned; the file of day 4 failed, the files of
\* day 5 had no features, and a polygon was parsed for day 1.
C18_Witness ==
    /\ f_pc = "fetched"
    /\ 4 \notin day_fetched
    /\ 5 \in day_fetched /\ f_result[5] = << >>
    /\ f_result[1] # << >>
    /\ f_result[4] = << >>


(***************************************************************************)
(* Claims about _merge_risk along merge sequences (SpecPipe)               *)
(***************************************************************************)
\* The records a hit can be merged into: the ones of the day, and the fresh
\* record of a county that has none yet.
MergeTargets ==
    SeqToSet(day_risks)
        \cup {CountyRisk(c, pday) : c \in {x \in Counties : IndexOf(day_risks, x) = 0}}

ProbValues == {0, 5, 15, 30}

\* The record of the county after the step, when it has one.
RiskAfter(fips) == day_risks'[IndexOf(day_risks', fips)]
RiskBefore(fips) ==
    IF IndexOf(day_risks, fips) = 0 THEN CountyRisk(fips, pday)
    ELSE day_risks[IndexOf(day_risks, fips)]

\* C21: merging a non-significant combined-probability hit of value p sets
\* hail_prob to max(hail_prob, p) and wind_prob to max(wind_prob, p) and
\* leaves tornado_prob, categorical_level and significant as they were; a
\* non-significant categorical, hail, tornado or wind hit changes only its
\* own field. This holds of the operator on every record of the day, and of
\* every hit match_counties merges.
C21_CombinedProbability ==
    /\ [](\A r \in MergeTargets : \A p \in ProbValues :
            /\ MergeRisk(r, RiskPolygon("probabilistic", p, FALSE))
                 = [r EXCEPT !.hail_prob = IF r.hail_prob >= p THEN r.hail_prob ELSE p,
                             !.wind_prob = IF r.wind_prob >= p THEN r.wind_prob ELSE p]
            /\ \A f \in {"categorical_level", "tornado_prob", "wind_prob", "significant"} :
                 MergeRisk(r, RiskPolygon("hail", p, FALSE))[f] = r[f]
            /\ \A f \in {"categorical_level", "hail_prob", "wind_prob", "significant"} :
                 MergeRisk(r, RiskPolygon("tornado", p, FALSE))[f] = r[f]
            /\ \A f \in {"categorical_level", "hail_prob", "tornado_prob", "significant"} :
                 MergeRisk(r, RiskPolygon("wind", p, FALSE))[f] = r[f]
            /\ \A f \in {"hail_prob", "tornado_prob", "wind_prob", "significant"} :
                 MergeRisk(r, RiskPolygon("categorical", 3, FALSE))[f] = r[f])
    /\ [][\A c \in Counties : \A rp \in hits'[c] \ hits[c] :
            (rp.outlook_type = "probabilistic" /\ ~rp.significant) =>
                /\ RiskAfter(c).hail_prob = Max(RiskBefore(c).hail_prob, rp.risk_level)
                /\ RiskAfter(c).wind_prob = Max(RiskBefore(c).wind_prob, rp.risk_level)
                /\ RiskAfter(c).tornado_prob = RiskBefore(c).tornado_prob
                /\ RiskAfter(c).categorical_level = RiskBefore(c).categorical_level
                /\ RiskAfter(c).significant = RiskBefore(c).significant]_vars

\* C21 witness: a county with a tornado 5 hit then took the combined
\* probability 15 hit: hail and wind are 15, tornado is still 5.
C21_Witness ==
    \E i \in 1..Len(day_risks) :
        /\ hits[day_risks[i].fips] = {RiskPolygon("tornado", 5, FALSE),
                                      RiskPolygon("probabilistic", 15, FALSE)}
        /\ day_risks[i].hail_prob = 15
        /\ day_risks[i].wind_prob = 15
        /\ day_risks[i].tornado_prob = 5
        /\ day_risks[i].categorical_level = 0
        /\ ~day_risks[i].significant

\* The values that came in for a field: the risk levels of the
\* non-significant hits of the given outlook types.
Incoming(fips, types) ==
    {rp.risk_level : rp \in {h \in hits[fips] : h.outlook_type \in types /\ ~h.significant}}
        \cup {0}

\* C22: along the merges of a day no numeric field of a CountyRisk decreases,
\* and each field is the maximum of the values that came in for it so far (0
\* when none came in; a combined-probability value comes in for hail and for
\* wind); with categorical values in 0..6 the categorical level stays in 0..6.
C22_Monotonic ==
    /\ [](\A i \in 1..Len(day_risks) :
            LET r == day_risks[i]
            IN /\ r.categorical_level = MaxOf(Incoming(r.fips, {"categorical"}))
               /\ r.hail_prob = MaxOf(Incoming(r.fips, {"hail", "probabilistic"}))
               /\ r.tornado_prob = MaxOf(Incoming(r.fips, {"tornado"}))
               /\ r.wind_prob = MaxOf(Incoming(r.fips, {"wind", "probabilistic"}))
               /\ r.categorical_level \in 0..6
               /\ \A lvl \in 0..6 :
                    MergeRisk(r, RiskPolygon("categorical", lvl, FALSE)).categorical_level
                        \in r.categorical_level..6)
    /\ [][\A i \in 1..Len(day_risks) :
            /\ Len(day_risks') >= Len(day_risks)
            /\ day_risks'[i].fips = day_risks[i].fips
            /\ day_risks'[i].categorical_level >= day_risks[i].categorical_level
            /\ day_risks'[i].hail_prob >= day_risks[i].hail_prob
            /\ day_risks'[i].tornado_prob >= day_risks[i].tornado_prob
            /\ day_risks'[i].wind_prob >= day_risks[i].wind_prob]_vars

\* C22 witness: a county took the hail 15 hit and then the hail 5 hit, and
\* its hail probability is 15.
C22_Witness ==
    \E i \in 1..Len(day_risks) :
        /\ hits[day_risks[i].fips] = {RiskPolygon("hail", 15, FALSE),
                                      RiskPolygon("hail", 5, FALSE)}
        /\ day_risks[i].hail_prob = 15


(***************************************************************************)
(* Claims about the records of match_counties (SpecMatch)                  *)
(***************************************************************************)
PassedHits(d, c) == {h[3] : h \in {x \in m_passed : x[1] = d /\ x[2] = c}}

OnePerCounty(risks, d) ==
    /\ \A i, j \in 1..Len(risks) : risks[i].fips = risks[j].fips => i = j
    /\ \A i \in 1..Len(risks) :
         risks[i] = MergeAll(CountyRisk(risks[i].fips, d), PassedHits(d, risks[i].fips))

\* C23: the list match_counties builds and returns for a day holds at most
\* one CountyRisk per county id, however many polygons or polygon parts
\* contain the county's point, and that record is the merge of all the hits
\* of the county on that day.
C23_OneRecordPerCounty ==
    /\ m_pc \in {"poly", "part"} => OnePerCounty(m_day_risks, MDay)
    /\ \A d \in DOMAIN m_results : OnePerCounty(m_results[d], d)

\* C23 witness: match_counties returned; on day 1 the point of county 48439
\* was within the categorical 4 and the categorical 3 polygon, and the day's
\* list has one record for it, at level 4.
C23_Witness ==
    /\ m_pc = "returned"
    /\ 1 \in DOMAIN m_results
    /\ PassedHits(1, "48439") = {RiskPolygon("categorical", 4, FALSE),
                                 RiskPolygon("categorical", 3, FALSE)}
    /\ Cardinality({i \in 1..Len(m_results[1]) : m_results[1][i].fips = "48439"}) = 1
    /\ \E i \in 1..Len(m_results[1]) :
         m_results[1][i].fips = "48439" /\ m_results[1][i].categorical_level = 4


(***************************************************************************)
(* Claims about the ranking of classify (SpecPipe)                         *)
(***************************************************************************)
RankTuple(r) == <<r.categorical_level, r.hail_prob, r.tornado_prob, r.wind_prob,
                  BoolInt(r.significant)>>

LexGreater(a, b) ==
    \E k \in 1..5 : a[k] > b[k] /\ \A j \in 1..(k - 1) : a[j] = b[j]

\* C24: DayResult.county_risks is in non-increasing order of the tuple
\* (categorical_level, hail_prob, tornado_prob, wind_prob, significant), and
\* two records with equal tuples are in the order match_counties gave them.
C24_RankingOrder ==
    stage \in {"classified", "markets"} =>
        LET fl == day_result.county_risks
        IN \A i, j \in 1..Len(fl) :
             i < j =>
                \/ LexGreater(RankTuple(fl[i]), RankTuple(fl[j]))
                \/ /\ RankTuple(fl[i]) = RankTuple(fl[j])
                   /\ IndexOf(day_risks, fl[i].fips) < IndexOf(day_risks, fl[j].fips)

\* C24 witness: two flagged counties with equal tuples, 48113 merged before
\* 48439, and ranked in that order.
C24_Witness ==
    /\ stage = "classified"
    /\ Len(day_risks) = 2
    /\ day_risks[1].fips = "48113" /\ day_risks[2].fips = "48439"
    /\ RankTuple(day_risks[1]) = RankTuple(day_risks[2])
    /\ day_result.county_risks = day_risks

\* The flagged records of a state, in ranking order.
FlaggedOf(a) == SelectSeq(day_result.county_risks, LAMBDA r : r.state_abbr = a)

RECURSIVE SumCounts(_, _)
SumCounts(f, S) ==
    IF S = {} THEN 0
    ELSE LET a == CHOOSE x \in S : TRUE IN f[a].count + SumCounts(f, S \ {a})

\* C25: state_summaries has an entry exactly for the states of the flagged
\* records; its count is the number of flagged records of the state, its
\* highest_risk their maximum categorical level, its member list those
\* records in the ranking order of DayResult.county_risks; the counts add up
\* to the number of flagged records.
C25_StateSummaries ==
    stage \in {"classified", "markets"} =>
        LET fl == day_result.county_risks
            ss == day_result.state_summaries
        IN /\ DOMAIN ss = {fl[i].state_abbr : i \in 1..Len(fl)}
           /\ \A a \in DOMAIN ss :
                /\ ss[a].count = Cardinality({i \in 1..Len(fl) : fl[i].state_abbr = a})
                /\ IsMaxOf(ss[a].highest_risk,
                           {fl[i].categorical_level :
                               i \in {k \in 1..Len(fl) : fl[k].state_abbr = a}})
                /\ ss[a].counties = FlaggedOf(a)
           /\ SumCounts(ss, DOMAIN ss) = Len(fl)

\* C25 witness: two flagged Texas counties at the same categorical level, the
\* one with the lower hail probability merged first; the summary lists the
\* higher hail probability first, as the ranking does.
C25_Witness ==
    /\ stage = "classified"
    /\ Len(day_risks) = 2
    /\ day_risks[1].state_abbr = "TX" /\ day_risks[2].state_abbr = "TX"
    /\ day_risks[1].categorical_level = day_risks[2].categorical_level
    /\ day_risks[1].hail_prob < day_risks[2].hail_prob
    /\ "TX" \in DOMAIN day_result.state_summaries
    /\ day_result.state_summaries["TX"].count = 2
    /\ day_result.state_summaries["TX"].counties = <<day_risks[2], day_risks[1]>>


(***************************************************************************)
(* Claims about the risk and the order of the windows (SpecWindows)        *)
(***************************************************************************)
\* C26: the highest_risk of a DemandWindow is the maximum of the market's
\* MarketResult.highest_risk over all the days on which the market has a
\* result, not only the first day; the returned windows are in the order of
\* (storm_date, short name of the market).
C26_WindowRiskAndOrder ==
    w_stage = "done" =>
        /\ \A i \in 1..Len(windows) :
             IsMaxOf(windows[i].highest_risk,
                     {w_results[<<d, windows[i].market>>] :
                        d \in {e \in WindowDays : w_results[<<e, windows[i].market>>] # Absent}})
        /\ \A i, j \in 1..Len(windows) :
             i < j =>
                \/ windows[i].storm_date < windows[j].storm_date
                \/ /\ windows[i].storm_date = windows[j].storm_date
                   /\ windows[i].market = "DFW" /\ windows[j].market = "HOU"

\* C26 witness: HOU is at level 3 on day 1 and level 4 on day 4, DFW appears
\* on day 2 only; the HOU window comes first and carries level 4.
C26_Witness ==
    /\ w_stage = "done"
    /\ w_results[<<1, "HOU">>] = 3 /\ w_results[<<4, "HOU">>] = 4
    /\ w_results[<<1, "DFW">>] = Absent /\ w_results[<<2, "DFW">>] = 3
    /\ Len(windows) = 2
    /\ windows[1].market = "HOU" /\ windows[1].trigger_day = 1
    /\ windows[1].highest_risk = 4
    /\ windows[2].market = "DFW"


(***************************************************************************)
(* Claims about repeated runs of post_alerts (Spec)                        *)
(***************************************************************************)
\* C27: when every run so far delivered each notification it attempted and
\* saved its state, a run with the same scan date, market results and active
\* alerts as the run before it delivers nothing and returns 0.
C27_RerunDeliversNothing ==
    (/\ pc = "idle"
     /\ outcome.kind = "returned"
     /\ runs >= 2
     /\ sameSince < runs
     /\ faults = 0)
    => /\ NotesOfRun(runs) = {}
       /\ outcome.value = 0


\* The run under way, or the last one, found no usable state file.
StartedWithoutState == runs >= 1 /\ fileAtStart.kind \in {"missing", "corrupt"}

\* C29: a run that finds the state file missing or unparseable starts from the
\* empty state without raising; every triggered candidate of that run passes
\* the send gate; and the file written when the run returns has a record
\* exactly for the markets delivered in that run.
C29_MissingStateIsEmpty ==
    /\ [][(pc = "idle" /\ pc' # "idle" /\ file.kind \in {"missing", "corrupt"})
            => (state' = EmptyState /\ pc' = "loop" /\ outcome'.kind = "running")]_vars
    /\ []((StartedWithoutState /\ InLoop /\ CurType # "none")
            => ShouldSend(CurMarket, CurType, CurStorm, state))
    /\ []((StartedWithoutState /\ pc = "idle" /\ outcome.kind = "returned")
            => /\ file.kind = "json"
               /\ \A m \in Markets :
                    file.data.markets[m] # NoRecord
                        <=> \E i \in NotesOfRun(runs) : delivered[i].market = m)

\* C29 witness: a run that found an unparseable file returned after one
\* delivery; the file has a record for that market only.
C29_Witness ==
    /\ pc = "idle" /\ outcome.kind = "returned" /\ outcome.value = 1
    /\ fileAtStart = CorruptFile
    /\ file.kind = "json"
    /\ Cardinality({m \in Markets : file.data.markets[m] # NoRecord}) = 1


\* The candidate of the loop is triggered, and its delivery failed in the
\* previous run, which had the same scan date and inputs.
RetryPending ==
    /\ InLoop
    /\ CurType # "none"
    /\ runs >= 2
    /\ sameSince < runs
    /\ Note(CurMarket, CurStorm, CurType, runs - 1) \in undelivered

\* The k-th candidate of the run has just been delivered and recorded.
DeliveredAt(k) ==
    /\ pc = "loop"
    /\ idx = k + 1
    /\ k \in 1..Len(work)
    /\ delivered # << >>
    /\ LET n == delivered[Len(delivered)]
       IN /\ n = Note(work[k][2], StormId(scan_date, work[k][1]), n.alert_type, runs)
          /\ Note(n.market, n.storm_id, n.alert_type, runs - 1) \in undelivered
          /\ state.markets[n.market] =
                [last_alert_type |-> n.alert_type, storm_id |-> n.storm_id,
                 last_alert_time |-> runs]

MaxWork == Cardinality(AlertDays) * Cardinality(Markets)

C28_HeadsUpUnreachable ==
    /\ \A d \in DOMAIN f_result : d >= 4 =>
         \A i \in 1..Len(f_result[d]) : f_result[d][i].outlook_type = "probabilistic"
    /\ \A d \in DOMAIN f_matched : d >= 4 =>
         \A i \in 1..Len(f_matched[d]) : f_matched[d][i].categorical_level = 0
    /\ \A d \in DOMAIN f_markets :
         \A i \in 1..Len(f_markets[d]) :
            LET mr == f_markets[d][i]
            IN /\ mr.day = d
               /\ d >= 4 => mr.highest_risk = 0
               /\ ~(d >= 4 /\ mr.highest_risk >= 3)
               /\ \A alerts \in AllFeeds :
                    TriggerType(d, mr.highest_risk, alerts) # "heads_up"

\* C28 witness: the scan produced a MarketResult on day 4, flagged by the
\* combined probability 15, with highest_risk 0.
C28_Witness ==
    /\ f_pc = "markets"
    /\ 4 \in DOMAIN f_markets
    /\ \E i \in 1..Len(f_markets[4]) :
         /\ f_markets[4][i].highest_risk = 0
         /\ f_markets[4][i].max_hail = 15
         /\ f_markets[4][i].max_wind = 15
         /\ TriggerType(4, f_markets[4][i].highest_risk, WatchAndWarning) = "none"

====
